---- MODULE Spec2Model ----
(***************************************************************************)
(* Life-cycle structural-integrity engine of the riser design application  *)
(* (src/app.py, class LifeCycleAnalyzer, and the standard-thickness search *)
(* of src/app.py and src/main.py).                                         *)
(*                                                                         *)
(* The program computes in floating point.  The model computes the same    *)
(* formulas in fixed point on integers, in these units:                    *)
(*   lengths (od_in, wt_in, wt_eff)      0.001 in                          *)
(*   pressures, stresses of a check      0.1 psi                           *)
(*   SMYS, UTS, E as pipe fields         psi                               *)
(*   depth, riser length                 m ; feet in 0.1 ft                *)
(*   fluid_sg                            0.01                              *)
(*   areas                               0.01 in^2                         *)
(*   forces                              10 lb                             *)
(*   safety factors, utilizations        0.001 ; Inf is float("inf")       *)
(*   dimensionless design factors        0.01                              *)
(*   components of the combined load     0.001                             *)
(* A quotient is truncated toward zero, except that a non-zero quantity    *)
(* never becomes zero (FDiv), so that "x == 0" and "x > 0" mean in the     *)
(* model what they mean on the floats.                                     *)
(***************************************************************************)
EXTENDS Integers, Sequences, FiniteSets, TLC

VARIABLES
    pipe,         \* PipeProperties of the analysis
    load,         \* LoadingCondition of the analysis
    pc,           \* position of the program
    result,       \* what run_all_conditions returned for (pipe, load)
    thicknesses,  \* the catalogue list a search iterates
    idx,          \* index of the next candidate of the running loop
    records,      \* rows collected by the running loop
    runs,         \* orchestrator runs made by the search in progress
    tab,          \* what the Standard Thickness tab shows
    closest,      \* what find_closest_passing_standard_wt returned
    scn,          \* locals of main.analyze_scenario
    probe,        \* what the six checks returned when called on their own
    rerun,        \* what a second run_all_conditions of the same analyzer returned
    stored,       \* cells a caller of analyze_condition_at_position has collected
    walls,        \* what the two effective-thickness functions returned for one nominal thickness
    pair,         \* what the four checks on the wall returned at two thicknesses
    variant       \* the pipe and loading of the analyzer built for the last candidate

vars == <<pipe, load, pc, result, thicknesses, idx, records, runs, tab, closest, scn, probe, rerun, stored, walls, pair, variant>>

-----------------------------------------------------------------------------
(* Fixed-point arithmetic *)

Max(a, b) == IF a >= b THEN a ELSE b

Min(a, b) == IF a <= b THEN a ELSE b

Abs(a) == IF a >= 0 THEN a ELSE -a

\* float("inf"): larger than every finite value of the model
Inf == 2147483647

\* a / b for b > 0, truncated toward zero; a non-zero quotient stays non-zero
FDiv(a, b) ==
    IF a = 0 THEN 0
    ELSE IF a > 0 THEN Max(1, a \div b)
    ELSE -Max(1, (-a) \div b)

RECURSIVE SqrtIter(_, _, _)
SqrtIter(n, lo, hi) ==
    IF lo >= hi THEN lo
    ELSE LET mid == (lo + hi + 1) \div 2
         IN IF mid * mid <= n THEN SqrtIter(n, mid, hi)
                              ELSE SqrtIter(n, lo, mid - 1)

\* a * b / c for b >= 0 and c > 0 without forming a * b, truncated as FDiv
MulDiv(a, b, c) ==
    LET m == Abs(a)
        q == (m \div c) * b + ((m % c) * b) \div c
    IN IF a = 0 \/ b = 0 THEN 0
       ELSE IF a > 0 THEN Max(1, q)
       ELSE -Max(1, q)

\* math.sqrt on a fixed-point square: the integer square root
ISqrt(n) == IF n = 0 THEN 0 ELSE Max(1, SqrtIter(n, 0, 46340))

\* math.sqrt(a**2 + b**2), evaluated as hi * sqrt(1 + (lo/hi)^2) with lo, hi the
\* smaller and the larger magnitude: the same value, and the squares stay in range
Hypot(a, b) ==
    LET hi == Max(Abs(a), Abs(b))
        lo == Min(Abs(a), Abs(b))
        r == IF hi = 0 THEN 0 ELSE FDiv(lo * 1000, hi)
    IN IF hi = 0 THEN 0 ELSE MulDiv(hi, ISqrt(1000000 + r * r), 1000)

-----------------------------------------------------------------------------
(* Constants and reference data, src/app.py lines 50-64 *)

DEFAULT_E_PSI == 29000000
DEFAULT_POISSON == 30
DEFAULT_WATER_DENSITY == 64
DESIGN_LIFE_YEARS == 20
CORROSION_RATE_PER_YEAR == 4
MILL_TOLERANCE == 125
HYDROTEST_FACTOR == 125
ATMOSPHERIC_PSI == 147

MANUFACTURING_COLLAPSE_FACTOR(manufacturing) ==
    CASE manufacturing = "SMLS" -> 70
      [] manufacturing = "ERW"  -> 75
      [] manufacturing = "DSAW" -> 60
      [] OTHER -> 70

-----------------------------------------------------------------------------
(* Pressure resolver *)

\* depth_m * 3.28084, in 0.1 ft
ft_from_m(depth_m) == FDiv(depth_m * 328084, 10000)

\* (fluid_sg * 64) * riser_length_ft / 144, the head of the riser contents
hydrostatic_head_psi(p, l) ==
    LET riser_length_ft == ft_from_m(l.riser_length_m)
        fluid_density_pcf == p.fluid_sg * DEFAULT_WATER_DENSITY
    IN FDiv(fluid_density_pcf * riser_length_ft, 14400)

\* variant: the pressure at the seabed, at every position
seabed_pressure_at_every_position(l, position) ==
    ATMOSPHERIC_PSI + FDiv(DEFAULT_WATER_DENSITY * ft_from_m(l.water_depth_m), 144)

external_pressure_psi_for_position(l, position) ==
    IF position = "Top" THEN ATMOSPHERIC_PSI
    ELSE LET depth_ft == ft_from_m(l.water_depth_m)
             hydrostatic_psi == FDiv(DEFAULT_WATER_DENSITY * depth_ft, 144)
         IN ATMOSPHERIC_PSI + hydrostatic_psi

\* variant: the shut-in pressure less the head, whatever the wellhead
\* location and whatever the sign of the difference
shut_in_less_head(p, l) == l.shut_in_pressure_psi - hydrostatic_head_psi(p, l)

\* variant: the MOP taken from the design pressure
mop_from_design_pressure(p, l) ==
    IF l.shut_in_location = "Top of Riser" THEN l.design_pressure_psi
    ELSE Max(l.design_pressure_psi - hydrostatic_head_psi(p, l), 0)

calculate_mop(p, l) ==
    IF l.shut_in_location = "Top of Riser" THEN l.shut_in_pressure_psi
    ELSE Max(l.shut_in_pressure_psi - hydrostatic_head_psi(p, l), 0)

\* variant: the full test pressure at both positions
test_pressure_at_every_position(p, l, position) ==
    FDiv(l.design_pressure_psi * HYDROTEST_FACTOR, 100)

calculate_hydrotest_pressure(p, l, position) ==
    LET base_hydrotest_pressure == FDiv(l.design_pressure_psi * HYDROTEST_FACTOR, 100)
    IN IF position = "Bottom" THEN base_hydrotest_pressure
       ELSE Max(base_hydrotest_pressure - hydrostatic_head_psi(p, l), 0)

\* variant: the shut-in pressure at both ends of the riser, no head
shut_in_at_every_position(p, l, position) == l.shut_in_pressure_psi

\* variant: below a wellhead at the top the head is taken off, as it is above
\* a subsea wellhead
head_taken_off_away_from_wellhead(p, l, position) ==
    IF l.shut_in_location = "Top of Riser"
    THEN IF position = "Top" THEN l.shut_in_pressure_psi
         ELSE Max(l.shut_in_pressure_psi - hydrostatic_head_psi(p, l), 0)
    ELSE IF position = "Bottom" THEN l.shut_in_pressure_psi
         ELSE Max(l.shut_in_pressure_psi - hydrostatic_head_psi(p, l), 0)

calculate_internal_pressure_at_position(p, l, position) ==
    IF l.shut_in_location = "Top of Riser"
    THEN IF position = "Top" THEN l.shut_in_pressure_psi
         ELSE l.shut_in_pressure_psi + hydrostatic_head_psi(p, l)
    ELSE IF position = "Bottom" THEN l.shut_in_pressure_psi
         ELSE Max(l.shut_in_pressure_psi - hydrostatic_head_psi(p, l), 0)

StrengthChecks == {"burst", "hoop", "longitudinal", "combined"}

StabilityChecks == {"collapse", "propagation"}

\* variant: the hoop check is given the pressure of the stability checks
hoop_with_stability_pressure(p, l, condition_name, check_type, position) ==
    IF condition_name = "Installation" THEN 0
    ELSE IF condition_name = "Hydrotest" THEN calculate_hydrotest_pressure(p, l, position)
    ELSE IF condition_name = "Operation"
    THEN LET position_pressure == calculate_internal_pressure_at_position(p, l, position)
         IN IF position = "Top" THEN position_pressure
            ELSE IF check_type \in StrengthChecks \ {"hoop"} THEN l.design_pressure_psi
            ELSE position_pressure
    ELSE 0

get_internal_pressure_for_check(p, l, condition_name, check_type, position) ==
    IF condition_name = "Installation" THEN 0
    ELSE IF condition_name = "Hydrotest" THEN calculate_hydrotest_pressure(p, l, position)
    ELSE IF condition_name = "Operation"
    THEN LET position_pressure == calculate_internal_pressure_at_position(p, l, position)
         IN IF position = "Top" THEN position_pressure
            ELSE IF check_type \in StrengthChecks THEN l.design_pressure_psi
            ELSE IF check_type \in StabilityChecks THEN position_pressure
            ELSE 0
    ELSE 0

-----------------------------------------------------------------------------
(* Effective wall thickness and design factors *)

\* variant: the reduced thickness as it comes, without the floor
wall_thickness_without_floor(p, use_mill_tolerance, use_corrosion) ==
    LET wt1 == IF use_mill_tolerance
               THEN FDiv(p.wt_in * (1000 - MILL_TOLERANCE), 1000)
               ELSE p.wt_in
    IN IF use_corrosion
       THEN wt1 - CORROSION_RATE_PER_YEAR * DESIGN_LIFE_YEARS
       ELSE wt1

\* variant: an analyzer whose cells share the pipe, so that a cell evaluated
\* with the corrosion allowance leaves the wall reduced for the cells after it
wall_thickness_worn_by_stored_cells(p, use_mill_tolerance, use_corrosion) ==
    LET worn == IF \E k \in 1..Len(stored) :
                       stored[k].evaluated /\ ~stored[k].raised /\ stored[k].corrosion_applied
                THEN CORROSION_RATE_PER_YEAR * DESIGN_LIFE_YEARS
                ELSE 0
        wt1 == IF use_mill_tolerance
               THEN FDiv(p.wt_in * (1000 - MILL_TOLERANCE), 1000)
               ELSE p.wt_in
        wt2 == IF use_corrosion
               THEN wt1 - CORROSION_RATE_PER_YEAR * DESIGN_LIFE_YEARS
               ELSE wt1
    IN Max(wt2 - worn, 1)

\* variant: an analyzer whose run wears the wall, so that a later run of the
\* same analyzer starts from a wall already reduced by the corrosion allowance
wall_thickness_worn_by_earlier_run(p, use_mill_tolerance, use_corrosion) ==
    LET worn == IF result.conditions # << >>
                THEN CORROSION_RATE_PER_YEAR * DESIGN_LIFE_YEARS
                ELSE 0
        wt1 == IF use_mill_tolerance
               THEN FDiv(p.wt_in * (1000 - MILL_TOLERANCE), 1000)
               ELSE p.wt_in
        wt2 == IF use_corrosion
               THEN wt1 - CORROSION_RATE_PER_YEAR * DESIGN_LIFE_YEARS
               ELSE wt1
    IN Max(wt2 - worn, 1)

effective_wall_thickness(p, use_mill_tolerance, use_corrosion) ==
    LET wt1 == IF use_mill_tolerance
               THEN FDiv(p.wt_in * (1000 - MILL_TOLERANCE), 1000)
               ELSE p.wt_in
        wt2 == IF use_corrosion
               THEN wt1 - CORROSION_RATE_PER_YEAR * DESIGN_LIFE_YEARS
               ELSE wt1
    IN Max(wt2, 1)

\* main.get_effective_wall_thickness; mill_tolerance_percent in 0.1 %
get_effective_wall_thickness(nominal_wt, corrosion_allowance, mill_tolerance_percent, apply_corrosion, apply_mill_tolerance) ==
    LET effective_wt1 == IF apply_mill_tolerance
                         THEN FDiv(nominal_wt * (1000 - mill_tolerance_percent), 1000)
                         ELSE nominal_wt
        effective_wt2 == IF apply_corrosion
                         THEN effective_wt1 - corrosion_allowance
                         ELSE effective_wt1
    IN Max(effective_wt2, 1)

hoop_design_factor(p) ==
    IF p.design_category = "Pipeline" THEN 72
    ELSE IF p.fluid_type \in {"Gas", "Wet Gas"} THEN 50
    ELSE IF p.fluid_type \in {"Oil", "Multiphase"} THEN 60
    ELSE 72

burst_design_factor(design_category) ==
    IF design_category = "Pipeline" THEN 90 ELSE 75

-----------------------------------------------------------------------------
(* Check library.  Every check returns a record; raised = TRUE stands for  *)
(* the ZeroDivisionError of "1 / sf" leaving the method when sf == 0.      *)
(* capacity is pb, pc, pp of the source; demand is what the safety factor  *)
(* divides by: details.delta_p, hoop_stress, t_eff_lb, combined_ratio.     *)

\* "utilization": 0 if sf == float("inf") else 1 / sf
Utilization(sf) == IF sf = Inf \/ sf = 0 THEN 0 ELSE FDiv(1000000, sf)

UtilizationRaises(sf) == sf = 0

compute_burst(p, p_internal, p_external, wt_eff) ==
    LET fd == burst_design_factor(p.design_category)
        od == p.od_in
        pb == IF od > wt_eff
              THEN MulDiv(9 * (p.smys_psi + p.uts_psi), wt_eff, od - wt_eff)
              ELSE 0
        allowable_burst == MulDiv(pb, fd, 100)
        delta_p == p_internal - p_external
        sf == IF delta_p <= 0 THEN Inf ELSE MulDiv(allowable_burst, 1000, delta_p)
    IN [name |-> "Burst",
        p_internal |-> p_internal,
        capacity |-> pb,
        allowable |-> allowable_burst,
        demand |-> delta_p,
        safety_factor |-> sf,
        utilization |-> Utilization(sf),
        pass_fail |-> sf >= 1000,
        raised |-> UtilizationRaises(sf)]

\* (t/D) in 0.0001, (t/D)^2 in 0.000001, (t/D)^3 in 0.0000001
t_over_d_of(p, wt_eff) == FDiv(wt_eff * 10000, p.od_in)

SquareOf(x) == FDiv(x * x, 100)

CubeOf(x) == FDiv(FDiv(SquareOf(x), 10) * x, 100)

\* P_y * P_e / sqrt(P_y^2 + P_e^2), evaluated as lo / sqrt(1 + (lo/hi)^2) with
\* lo, hi the smaller and the larger of the two: the same value, and the
\* squares stay in range
critical_collapse(py, pe) ==
    IF py > 0 /\ pe > 0
    THEN LET lo == Min(py, pe)
             hi == Max(py, pe)
             r == FDiv(lo * 1000, hi)
         IN FDiv(lo * 1000, ISqrt(1000000 + r * r))
    ELSE 0

compute_collapse(p, p_internal, p_external, wt_eff) ==
    LET od == p.od_in
        f_o == MANUFACTURING_COLLAPSE_FACTOR(p.manufacturing)
        t_over_d == t_over_d_of(p, wt_eff)
        py == MulDiv(20 * p.smys_psi, wt_eff, od)
        \* 2E / ((1 - nu^2)(1 + ovality)), in 1000 psi
        stiffness == FDiv(FDiv(2 * p.E_psi, 1000) * 10000,
                          FDiv((10000 - p.poisson * p.poisson) * (1000 + p.ovality), 1000))
        pe == MulDiv(CubeOf(t_over_d), stiffness, 1000)
        pcr == critical_collapse(py, pe)
        allowable_collapse == MulDiv(pcr, f_o, 100)
        delta_p == p_external - p_internal
        sf == IF delta_p <= 0 THEN Inf ELSE MulDiv(allowable_collapse, 1000, delta_p)
    IN [name |-> "Collapse",
        p_internal |-> p_internal,
        capacity |-> pcr,
        allowable |-> allowable_collapse,
        collapse_factor |-> f_o,
        demand |-> delta_p,
        safety_factor |-> sf,
        utilization |-> Utilization(sf),
        pass_fail |-> sf >= 1000,
        raised |-> UtilizationRaises(sf)]

\* variant: a propagation check that divides by the demand also when the
\* demand is not positive
propagation_without_favorable_case(p, p_internal, p_external, wt_eff) ==
    LET t_over_d == FDiv(wt_eff * 10000, p.od_in)
        pow25 == FDiv(FDiv(FDiv(t_over_d * t_over_d, 100), 10) * ISqrt(t_over_d * 10000), 1000)
        pp == MulDiv(pow25, FDiv(35 * p.smys_psi, 1000), 100)
        allowable_prop == MulDiv(pp, 80, 100)
        delta_p == p_external - p_internal
        sf == MulDiv(allowable_prop, 1000, Max(Abs(delta_p), 1))
    IN [name |-> "Propagation",
        p_internal |-> p_internal,
        capacity |-> pp,
        allowable |-> allowable_prop,
        demand |-> delta_p,
        safety_factor |-> sf,
        utilization |-> Utilization(sf),
        pass_fail |-> sf >= 1000,
        raised |-> UtilizationRaises(sf)]

compute_propagation(p, p_internal, p_external, wt_eff) ==
    LET fp == 80
        t_over_d == t_over_d_of(p, wt_eff)
        \* (t/D)^2.5 = (t/D)^2 * sqrt(t/D), in 0.000001
        pow25 == FDiv(FDiv(SquareOf(t_over_d), 10) * ISqrt(t_over_d * 10000), 1000)
        pp == MulDiv(pow25, FDiv(35 * p.smys_psi, 1000), 100)
        allowable_prop == MulDiv(pp, fp, 100)
        delta_p == p_external - p_internal
        sf == IF delta_p <= 0 THEN Inf ELSE MulDiv(allowable_prop, 1000, delta_p)
    IN [name |-> "Propagation",
        p_internal |-> p_internal,
        capacity |-> pp,
        allowable |-> allowable_prop,
        demand |-> delta_p,
        safety_factor |-> sf,
        utilization |-> Utilization(sf),
        pass_fail |-> sf >= 1000,
        raised |-> UtilizationRaises(sf)]

\* variant: the hoop stress keeps the sign of the net internal pressure
compute_hoop_signed(p, p_internal, p_external, wt_eff) ==
    LET od == p.od_in
        design_factor == hoop_design_factor(p)
        delta_p == p_internal - p_external
        hoop_stress ==
            IF wt_eff <= 0 \/ od <= wt_eff THEN Inf
            ELSE IF p_internal <= 0 THEN FDiv(p_external * od, 2 * wt_eff)
            ELSE FDiv(delta_p * od, 2 * wt_eff)
        allowable == FDiv(design_factor * p.smys_psi, 10)
        \* allowable / float("inf") == 0.0
        sf == IF hoop_stress > 0
              THEN (IF hoop_stress = Inf THEN 0 ELSE MulDiv(allowable, 1000, hoop_stress))
              ELSE Inf
    IN [name |-> "Hoop Stress",
        p_internal |-> p_internal,
        capacity |-> allowable,
        allowable |-> allowable,
        hoop_stress |-> hoop_stress,
        delta_p |-> delta_p,
        demand |-> hoop_stress,
        safety_factor |-> sf,
        utilization |-> Utilization(sf),
        pass_fail |-> sf >= 1000,
        raised |-> UtilizationRaises(sf)]

compute_hoop(p, p_internal, p_external, wt_eff) ==
    LET od == p.od_in
        design_factor == hoop_design_factor(p)
        delta_p == p_internal - p_external
        hoop_stress ==
            IF wt_eff <= 0 \/ od <= wt_eff THEN Inf
            ELSE IF p_internal <= 0 THEN FDiv(p_external * od, 2 * wt_eff)
            ELSE IF delta_p <= 0 THEN FDiv(Abs(delta_p) * od, 2 * wt_eff)
            ELSE FDiv(delta_p * od, 2 * wt_eff)
        allowable == FDiv(design_factor * p.smys_psi, 10)
        \* allowable / float("inf") == 0.0
        sf == IF hoop_stress > 0
              THEN (IF hoop_stress = Inf THEN 0 ELSE MulDiv(allowable, 1000, hoop_stress))
              ELSE Inf
    IN [name |-> "Hoop Stress",
        p_internal |-> p_internal,
        capacity |-> allowable,
        allowable |-> allowable,
        hoop_stress |-> hoop_stress,
        delta_p |-> delta_p,
        demand |-> hoop_stress,
        safety_factor |-> sf,
        utilization |-> Utilization(sf),
        pass_fail |-> sf >= 1000,
        raised |-> UtilizationRaises(sf)]

-----------------------------------------------------------------------------
(* Pipe weight, src/calculations/calcs_weight.py *)

STEEL_DENSITY_PCF == 490
SEAWATER_DENSITY_PCF == 64

\* pi / 4 * (a square of diameters, in 0.000001 in^2), in 0.01 in^2
AreaOf(sq) == FDiv(FDiv(sq, 1000) * 7854, 100000)

\* void_submerged_weight_plf, in 0.01 lb/ft
void_submerged_weight_plf(od, wt) ==
    LET id == od - 2 * wt
        a_steel == AreaOf(od * od - id * id)
        a_outer == AreaOf(od * od)
        void_dry_weight_plf == FDiv(STEEL_DENSITY_PCF * a_steel, 144)
    IN void_dry_weight_plf - FDiv(SEAWATER_DENSITY_PCF * a_outer, 144)

-----------------------------------------------------------------------------
(* Longitudinal tension and combined loading *)

calculate_longitudinal_load(p, l, wt_eff, p_internal, p_external, condition_name, position) ==
    LET od == p.od_in
        id_val == od - 2 * wt_eff
        a_outer == AreaOf(od * od)
        a_inner == AreaOf(id_val * id_val)
        \* a_outer - a_inner, taken on the squares so that a thin wall keeps an area
        a_steel == AreaOf(od * od - id_val * id_val)
        void_submerged_plf == void_submerged_weight_plf(od, wt_eff)
        t_a_lb == IF position = "Top"
                  THEN FDiv(void_submerged_plf * ft_from_m(l.riser_length_m), 10000)
                  ELSE 0
        force_internal_lb == FDiv(p_internal * a_inner, 10000)
        force_external_lb == FDiv(p_external * a_outer, 10000)
        t_eff_lb == t_a_lb - force_internal_lb + force_external_lb
        t_y_lb == FDiv(p.smys_psi * a_steel, 1000)
        allowable_tension_lb == MulDiv(t_y_lb, 60, 100)
        sf == IF t_eff_lb <= 0 THEN Inf ELSE MulDiv(allowable_tension_lb, 1000, t_eff_lb)
    IN [name |-> "Longitudinal",
        p_internal |-> p_internal,
        t_eff_effective_lb |-> t_eff_lb,
        t_y_yield_lb |-> t_y_lb,
        demand |-> t_eff_lb,
        safety_factor |-> sf,
        passes |-> IF t_eff_lb <= 0 THEN TRUE ELSE sf >= 1000]

calculate_combined_load(p, l, wt_eff, p_internal, p_external, condition_name, position) ==
    LET design_factor == IF condition_name = "Operation" THEN 90 ELSE 96
        p_diff == p_internal - p_external
        \* the rest of the method, given the two results it starts from
        combine(longitudinal, burst_result) ==
            LET p_b == burst_result.capacity
                \* the two components and their resultant, in 0.001
                pressure_component == IF p_b > 0 THEN FDiv(p_diff * 1000, p_b) ELSE 0
                t_eff == longitudinal.t_eff_effective_lb
                t_y == longitudinal.t_y_yield_lb
                tension_component == IF t_y > 0 THEN FDiv(t_eff * 1000, t_y) ELSE 0
                combined_ratio == Hypot(pressure_component, tension_component)
                sf == IF combined_ratio > 0
                      THEN FDiv(design_factor * 10000, combined_ratio)
                      ELSE Inf
            IN [name |-> "Combined",
                p_internal |-> p_internal,
                combined_ratio |-> combined_ratio,
                design_factor |-> design_factor,
                demand |-> combined_ratio,
                safety_factor |-> sf,
                passes |-> combined_ratio <= design_factor * 10,
                raised |-> burst_result.raised]
    IN combine(calculate_longitudinal_load(p, l, wt_eff, p_internal, p_external,
                                           condition_name, position),
               compute_burst(p, p_internal, p_external, wt_eff))

-----------------------------------------------------------------------------
(* One cell of the life-cycle matrix *)

\* variant: among checks of equal smallest safety factor the last one is taken
last_of_smallest_safety_factor(checks) ==
    LET i == CHOOSE k \in 1..Len(checks) :
                 /\ \A j \in 1..Len(checks) : checks[k].safety_factor <= checks[j].safety_factor
                 /\ \A j \in (k + 1)..Len(checks) : checks[j].safety_factor > checks[k].safety_factor
    IN checks[i]

\* the first check of smallest safety factor, as min(checks, key=...) picks it
LimitingOf(checks) ==
    LET i == CHOOSE k \in 1..Len(checks) :
                 /\ \A j \in 1..Len(checks) : checks[k].safety_factor <= checks[j].safety_factor
                 /\ \A j \in 1..(k - 1) : checks[j].safety_factor > checks[k].safety_factor
    IN checks[i]

get_wt_type_short(use_mill_tolerance, use_corrosion) ==
    IF ~use_mill_tolerance /\ ~use_corrosion THEN "nominal"
    ELSE IF use_mill_tolerance /\ ~use_corrosion THEN "with_tol"
    ELSE IF ~use_mill_tolerance /\ use_corrosion THEN "with_corr"
    ELSE "with_tol_corr"

analyze_condition_at_position(p, l, condition_name, position, use_mill_tolerance, use_corrosion) ==
    LET p_external == external_pressure_psi_for_position(l, position)
        wt_eff == effective_wall_thickness(p, use_mill_tolerance, use_corrosion)
        p_i_burst == get_internal_pressure_for_check(p, l, condition_name, "burst", position)
        p_i_collapse == get_internal_pressure_for_check(p, l, condition_name, "collapse", position)
        p_i_propagation == get_internal_pressure_for_check(p, l, condition_name, "propagation", position)
        p_i_hoop == get_internal_pressure_for_check(p, l, condition_name, "hoop", position)
        p_i_longitudinal == get_internal_pressure_for_check(p, l, condition_name, "longitudinal", position)
        p_i_combined == get_internal_pressure_for_check(p, l, condition_name, "combined", position)
        \* the dict the method returns, given the results of its six checks
        cell(burst, collapse, propagation, hoop, longitudinal, combined) ==
            LET checks == <<burst, collapse, propagation, hoop>>
                \* an exception of a check leaves the method: no cell is returned.
                \* The exception of the burst and of the hoop check is looked at
                \* first; which check raises does not change what the caller sees.
                raised == burst.raised \/ hoop.raised \/ collapse.raised \/ propagation.raised
            IN IF raised
               THEN [raised |-> TRUE,
                     condition_name |-> condition_name,
                     position |-> position,
                     wt_key |-> get_wt_type_short(use_mill_tolerance, use_corrosion),
                     wt_nominal |-> p.wt_in,
                     wt_effective |-> wt_eff]
               ELSE [raised |-> FALSE,
                     condition_name |-> condition_name,
                     position |-> position,
                     wt_key |-> get_wt_type_short(use_mill_tolerance, use_corrosion),
                     p_internal_burst |-> p_i_burst,
                     p_internal_collapse |-> p_i_collapse,
                     p_external_psi |-> p_external,
                     wt_nominal |-> p.wt_in,
                     wt_effective |-> wt_eff,
                     mill_tolerance_applied |-> use_mill_tolerance,
                     corrosion_applied |-> use_corrosion,
                     checks |-> checks,
                     longitudinal |-> longitudinal,
                     combined |-> combined,
                     all_pass |-> /\ \A i \in 1..Len(checks) : checks[i].pass_fail
                                  /\ longitudinal.passes
                                  /\ combined.passes,
                     limiting |-> LimitingOf(checks),
                     mop_psi |-> calculate_mop(p, l),
                     mop_active |-> /\ condition_name = "Operation"
                                    /\ l.shut_in_location = "Subsea Wellhead"
                                    /\ position = "Top"]
    IN cell(compute_burst(p, p_i_burst, p_external, wt_eff),
            compute_collapse(p, p_i_collapse, p_external, wt_eff),
            compute_propagation(p, p_i_propagation, p_external, wt_eff),
            compute_hoop(p, p_i_hoop, p_external, wt_eff),
            calculate_longitudinal_load(p, l, wt_eff, p_i_longitudinal, p_external,
                                        condition_name, position),
            calculate_combined_load(p, l, wt_eff, p_i_combined, p_external,
                                    condition_name, position))

-----------------------------------------------------------------------------
(* Orchestrator *)

installation_wt_types == <<<<FALSE, FALSE>>, <<TRUE, FALSE>>>>

hydrotest_wt_types == <<<<FALSE, FALSE>>, <<TRUE, FALSE>>>>

\* variant: Operation evaluated on the two thicknesses of the other stages
operation_wt_types_as_installation == <<<<FALSE, FALSE>>, <<TRUE, FALSE>>>>

operation_wt_types == <<<<FALSE, FALSE>>, <<TRUE, FALSE>>, <<FALSE, TRUE>>, <<TRUE, TRUE>>>>

positions == <<"Top", "Bottom">>

\* the cells of one stage in the order the loops of run_all_conditions make them
StageCells(condition_name, wt_types) ==
    [k \in 1..(Len(wt_types) * Len(positions)) |->
        [condition_name |-> condition_name,
         use_mill |-> wt_types[(k + 1) \div 2][1],
         use_corr |-> wt_types[(k + 1) \div 2][2],
         position |-> positions[2 - (k % 2)]]]

CellOrder ==
    StageCells("Installation", installation_wt_types)
    \o StageCells("Hydrotest", hydrotest_wt_types)
    \o StageCells("Operation", operation_wt_types)

\* variant: a run that passes as soon as one of its cells passes
run_passing_on_any_cell(p, l) ==
    LET \* the dict the method returns, given the cells its loops have filled in
        run(cells) ==
            IF \E k \in 1..Len(cells) : cells[k].raised
            THEN [raised |-> TRUE, conditions |-> <<>>, all_conditions_pass |-> FALSE]
            ELSE [raised |-> FALSE,
                  conditions |-> cells,
                  all_conditions_pass |-> \E k \in 1..Len(cells) : cells[k].all_pass]
    IN run([k \in 1..Len(CellOrder) |->
              analyze_condition_at_position(p, l, CellOrder[k].condition_name,
                                            CellOrder[k].position,
                                            CellOrder[k].use_mill,
                                            CellOrder[k].use_corr)])

\* variant: a run that passes when its Operation cells pass
run_passing_on_operation_cells(p, l) ==
    LET \* the dict the method returns, given the cells its loops have filled in
        run(cells) ==
            IF \E k \in 1..Len(cells) : cells[k].raised
            THEN [raised |-> TRUE, conditions |-> <<>>, all_conditions_pass |-> FALSE]
            ELSE [raised |-> FALSE,
                  conditions |-> cells,
                  all_conditions_pass |->
                      \A k \in 1..Len(cells) :
                          cells[k].condition_name = "Operation" => cells[k].all_pass]
    IN run([k \in 1..Len(CellOrder) |->
              analyze_condition_at_position(p, l, CellOrder[k].condition_name,
                                            CellOrder[k].position,
                                            CellOrder[k].use_mill,
                                            CellOrder[k].use_corr)])

run_all_conditions(p, l) ==
    LET \* the dict the method returns, given the cells its loops have filled in
        run(cells) ==
            IF \E k \in 1..Len(cells) : cells[k].raised
            THEN [raised |-> TRUE, conditions |-> <<>>, all_conditions_pass |-> FALSE]
            ELSE [raised |-> FALSE,
                  conditions |-> cells,
                  all_conditions_pass |-> \A k \in 1..Len(cells) : cells[k].all_pass]
    IN run([k \in 1..Len(CellOrder) |->
              analyze_condition_at_position(p, l, CellOrder[k].condition_name,
                                            CellOrder[k].position,
                                            CellOrder[k].use_mill,
                                            CellOrder[k].use_corr)])

-----------------------------------------------------------------------------
(* Standard-thickness catalogue, src/reference_data/asme_b36_10.py.  The   *)
(* rows of the table the model draws outer diameters from; a row is the    *)
(* dict of the source as a sequence of <<schedule name, thickness>>.       *)

PIPE_SCHEDULE_DATA(od) ==
    CASE od = 2375 ->
           << <<"5S", 65>>, <<"5", 65>>, <<"10S", 109>>, <<"10", 109>>, <<"40S", 154>>,
              <<"STD", 154>>, <<"40", 154>>, <<"80S", 218>>, <<"XS", 218>>, <<"80", 218>>,
              <<"160", 343>>, <<"XXS", 436>> >>
      [] od = 5000 ->
           << <<"40S", 247>>, <<"STD", 247>>, <<"80S", 355>>, <<"XS", 355>>, <<"XXS", 710>> >>
      [] od = 16000 ->
           << <<"5S", 165>>, <<"10S", 188>>, <<"10", 250>>, <<"20", 312>>, <<"30", 375>>,
              <<"40S", 375>>, <<"STD", 375>>, <<"40", 500>>, <<"80S", 500>>, <<"XS", 500>>,
              <<"60", 656>>, <<"80", 843>>, <<"100", 1031>>, <<"120", 1218>>,
              <<"140", 1427>>, <<"160", 1593>> >>
      [] OTHER -> << >>

\* od in PIPE_SCHEDULE_DATA
InTable(od) == PIPE_SCHEDULE_DATA(od) # << >>

RECURSIVE sorted(_)
\* sorted(...) of a set or of a list of numbers: ascending
sorted(S) ==
    IF S = {} THEN << >>
    ELSE LET m == CHOOSE x \in S : \A y \in S : x <= y
         IN <<m>> \o sorted(S \ {m})

\* PIPE_SCHEDULES[od] = sorted(set(schedules.values()))
PIPE_SCHEDULES(od) ==
    LET schedules == PIPE_SCHEDULE_DATA(od)
    IN sorted({schedules[k][2] : k \in 1..Len(schedules)})

\* variant: a catalogue that answers every diameter
thicknesses_for_any_diameter(od) == <<250, 500>>

\* None (and the empty list, which "not thicknesses" treats alike) is << >>
get_standard_thicknesses(od) ==
    IF InTable(od)
    THEN LET row == PIPE_SCHEDULES(od)
         IN sorted({row[k] : k \in 1..Len(row)})
    ELSE << >>

\* the names whose thickness is within 0.001 in; "/".join(names) is kept as the
\* sequence of the names
get_schedule_for_thickness(od, thickness) ==
    LET schedules == PIPE_SCHEDULE_DATA(od)
        hit(k) == Abs(schedules[k][2] - thickness) <= 1
        RECURSIVE names(_)
        names(k) == IF k > Len(schedules) THEN << >>
                    ELSE (IF hit(k) THEN <<schedules[k][1]>> ELSE << >>) \o names(k + 1)
    IN names(1)

schedule_name_for_thickness(od, wt) ==
    LET names == get_schedule_for_thickness(od, wt)
    IN IF names = << >> THEN <<"Custom">> ELSE names

-----------------------------------------------------------------------------
(* Thickness search *)

\* absent thickness (None)
NoThickness == -1

\* PipeProperties(**{**asdict(base_pipe), "wt_in": wt})
\* variant: the base pipe is reused and its wall only ever thickened, so that
\* a candidate thinner than the base wall is run with the base wall
pipe_never_thinner(base_pipe, wt) ==
    [base_pipe EXCEPT !.wt_in = Max(wt, base_pipe.wt_in)]

pipe_variant(base_pipe, wt) == [base_pipe EXCEPT !.wt_in = wt]

RECURSIVE LastWorstOf(_, _, _)
\* variant: a cell of equal safety factor replaces the one found before
LastWorstOf(cells, k, acc) ==
    IF k > Len(cells) THEN acc
    ELSE IF cells[k].limiting.safety_factor <= acc.min_sf
         THEN LastWorstOf(cells, k + 1,
                          [min_sf |-> cells[k].limiting.safety_factor,
                           limiting_condition |-> <<cells[k].condition_name, cells[k].wt_key,
                                                    cells[k].position>>,
                           limiting_check |-> cells[k].limiting.name])
         ELSE LastWorstOf(cells, k + 1, acc)

RECURSIVE WorstOf(_, _, _)
\* the scan of the cells for the worst limiting safety factor, in cell order
WorstOf(cells, k, acc) ==
    IF k > Len(cells) THEN acc
    ELSE IF cells[k].limiting.safety_factor < acc.min_sf
         THEN WorstOf(cells, k + 1,
                      [min_sf |-> cells[k].limiting.safety_factor,
                       limiting_condition |-> <<cells[k].condition_name, cells[k].wt_key,
                                                cells[k].position>>,
                       limiting_check |-> cells[k].limiting.name])
         ELSE WorstOf(cells, k + 1, acc)

\* one iteration of the loop of evaluate_standard_thicknesses: the row of wt
StandardRow(base_pipe, l, wt) ==
    LET \* records.append({...}), given the run and the worst cell of its scan
        record(res, worst) ==
            IF res.raised \/ worst.min_sf = 0
            THEN [raised |-> TRUE, wt |-> wt]
            ELSE [raised |-> FALSE,
                  wt |-> wt,
                  schedule |-> schedule_name_for_thickness(base_pipe.od_in, wt),
                  limiting_condition |-> worst.limiting_condition,
                  limiting_check |-> worst.limiting_check,
                  safety_factor |-> worst.min_sf,
                  \* round(100 / min_sf, 1), in 0.1 %
                  utilization |-> IF worst.min_sf = Inf THEN 0
                                  ELSE FDiv(1000000, worst.min_sf),
                  status |-> IF res.all_conditions_pass THEN "PASS" ELSE "FAIL"]
        scan(res) ==
            record(res, WorstOf(res.conditions, 1,
                                [min_sf |-> Inf, limiting_condition |-> << >>,
                                 limiting_check |-> ""]))
    IN scan(run_all_conditions(pipe_variant(base_pipe, wt), l))

\* variant: the largest candidate, whatever its run says
largest_candidate(base_pipe, l, candidates, k) ==
    [raised |-> FALSE, wt |-> candidates[Len(candidates)],
     message |-> schedule_name_for_thickness(base_pipe.od_in, candidates[Len(candidates)]),
     runs |-> 1]

RECURSIVE FirstPassing(_, _, _, _)
\* the loop of find_closest_passing_standard_wt over the sorted candidates
FirstPassing(base_pipe, l, candidates, k) ==
    IF k > Len(candidates)
    THEN [raised |-> FALSE, wt |-> NoThickness,
          message |-> <<"No passing standard thickness found">>, runs |-> k - 1]
    ELSE LET res == run_all_conditions(pipe_variant(base_pipe, candidates[k]), l)
         IN IF res.raised
            THEN [raised |-> TRUE, wt |-> NoThickness, message |-> << >>, runs |-> k]
            ELSE IF res.all_conditions_pass
            THEN [raised |-> FALSE, wt |-> candidates[k],
                  message |-> schedule_name_for_thickness(base_pipe.od_in, candidates[k]),
                  runs |-> k]
            ELSE FirstPassing(base_pipe, l, candidates, k + 1)

\* variant: an input above the whole catalogue is reported as candidates that
\* fail
find_closest_with_one_message(base_pipe, l, input_wt) ==
    LET ths == get_standard_thicknesses(base_pipe.od_in)
        candidates == SelectSeq(ths, LAMBDA wt : wt >= input_wt)
    IN IF ths = << >>
       THEN [raised |-> FALSE, wt |-> NoThickness,
             message |-> <<"No standard thicknesses available">>, runs |-> 0]
       ELSE FirstPassing(base_pipe, l,
                         sorted({candidates[k] : k \in 1..Len(candidates)}), 1)

\* variant: only the thicknesses strictly above the input are candidates
find_closest_strictly_above(base_pipe, l, input_wt) ==
    LET ths == get_standard_thicknesses(base_pipe.od_in)
        candidates == SelectSeq(ths, LAMBDA wt : wt > input_wt)
    IN IF ths = << >>
       THEN [raised |-> FALSE, wt |-> NoThickness,
             message |-> <<"No standard thicknesses available">>, runs |-> 0]
       ELSE IF candidates = << >>
       THEN [raised |-> FALSE, wt |-> NoThickness,
             message |-> <<"No standard thickness >= input thickness">>, runs |-> 0]
       ELSE FirstPassing(base_pipe, l,
                         sorted({candidates[k] : k \in 1..Len(candidates)}), 1)

find_closest_passing_standard_wt(base_pipe, l, input_wt) ==
    LET ths == get_standard_thicknesses(base_pipe.od_in)
        candidates == SelectSeq(ths, LAMBDA wt : wt >= input_wt)
    IN IF ths = << >>
       THEN [raised |-> FALSE, wt |-> NoThickness,
             message |-> <<"No standard thicknesses available">>, runs |-> 0]
       ELSE IF candidates = << >>
       THEN [raised |-> FALSE, wt |-> NoThickness,
             message |-> <<"No standard thickness >= input thickness">>, runs |-> 0]
       ELSE FirstPassing(base_pipe, l,
                         sorted({candidates[k] : k \in 1..Len(candidates)}), 1)

\* a call of find_closest_passing_standard_wt, kept with its argument
ClosestCall(base_pipe, l, input_wt) ==
    [input_wt |-> input_wt] @@ find_closest_passing_standard_wt(base_pipe, l, input_wt)

\* variant: every row, passing or not
every_row(rows) == rows

\* passing = df_std[df_std["Status"] == "PASS"]
PassingRows(rows) == SelectSeq(rows, LAMBDA r : r.status = "PASS")

-----------------------------------------------------------------------------
(* Inputs *)

DesignStep == 7000
MaxDesignSteps == 2
ShutInStep == 6180
MaxShutInSteps == 2
DepthStep == 460
MaxDepthSteps == 2
InputStep == 300
MaxInputSteps == 2
ProbeStep == 5000
MaxProbeSteps == 2

\* GRADE_PROPERTIES["X-52"], and the fields build_pipe_and_load fills in
PipeOf(od, wt) ==
    [od_in |-> od, wt_in |-> wt, grade |-> "X-52", manufacturing |-> "SMLS",
     design_category |-> "Riser", fluid_type |-> "Multiphase", fluid_sg |-> 57,
     smys_psi |-> 52000, uts_psi |-> 66000,
     E_psi |-> DEFAULT_E_PSI, poisson |-> DEFAULT_POISSON,
     ovality_type |-> "Other Type", ovality |-> 5]

\* <<od_in, wt_in>>: the 16 in reference riser; the thinnest wall the form
\* accepts, which the corrosion allowance nearly uses up; a 2.375 in pipe
\* with an ordinary wall, with a wall of more than half the diameter, and
\* with a wall of more than the diameter; a diameter the catalogue does not
\* have.  All lie within the limits of the input form (2-48 in, 0.1-3 in).
Geometries ==
    { <<16000, 750>>, <<16000, 100>>, <<2375, 218>>, <<2375, 1250>>, <<2375, 2500>>,
      <<8630, 500>> }

\* the welded pipes of the "Manufacturing Type" input, on the diameter the
\* catalogue does not have
WeldedPipes == { [PipeOf(8630, 500) EXCEPT !.manufacturing = m] : m \in {"ERW", "DSAW"} }

Pipes == { PipeOf(g[1], g[2]) : g \in Geometries } \cup WeldedPipes

\* the scenario main.py reads: a 5 in pipe of the catalogue, and the diameter
\* the catalogue does not have
ScenarioPipes == { PipeOf(5000, 247), PipeOf(8630, 500) }

\* a riser at the surface whose design and shut-in pressure equal the
\* atmospheric pressure outside: no check on the wall has a demand
BalancedLoad ==
    [design_pressure_psi |-> ATMOSPHERIC_PSI, shut_in_pressure_psi |-> ATMOSPHERIC_PSI,
     shut_in_location |-> "Top of Riser", water_depth_m |-> 0, riser_length_m |-> 0]

\* a design pressure no thickness of the catalogue holds in the hydrotest
OverpressureLoad ==
    [design_pressure_psi |-> 10 * DesignStep, shut_in_pressure_psi |-> 10 * ShutInStep,
     shut_in_location |-> "Subsea Wellhead",
     water_depth_m |-> DepthStep, riser_length_m |-> DepthStep]

Loads ==
    { [design_pressure_psi |-> d * DesignStep,
       shut_in_pressure_psi |-> s * ShutInStep,
       shut_in_location |-> loc,
       water_depth_m |-> w * DepthStep,
       riser_length_m |-> w * DepthStep] :
         d \in 0..MaxDesignSteps, s \in 0..MaxShutInSteps,
         loc \in {"Subsea Wellhead", "Top of Riser"}, w \in 0..MaxDepthSteps }
    \cup {BalancedLoad, OverpressureLoad}

ScenarioLoad ==
    [design_pressure_psi |-> 2 * DesignStep, shut_in_pressure_psi |-> 2 * ShutInStep,
     shut_in_location |-> "Subsea Wellhead",
     water_depth_m |-> 2 * DepthStep, riser_length_m |-> 2 * DepthStep]

\* pressures (0.1 psi) a caller hands to a check
ProbePressures == { k * ProbeStep : k \in 0..MaxProbeSteps }

\* thicknesses a caller hands to find_closest_passing_standard_wt
InputThicknesses(p) == {p.wt_in} \cup { k * InputStep : k \in 0..MaxInputSteps }

\* what main.analyze_condition hands back for one thickness and one condition,
\* as far as analyze_scenario and its callers read it: all_pass, and the largest
\* utilization of its checks (0.001); a check passes iff its utilization <= 1
ConditionOutcomes ==
    { [all_pass |-> TRUE, utilization |-> 700],
      [all_pass |-> TRUE, utilization |-> 900],
      [all_pass |-> FALSE, utilization |-> 1200] }

condition_order == <<"installation", "hydrotest", "operation">>

NoResult == [raised |-> FALSE, conditions |-> << >>, all_conditions_pass |-> FALSE]

NoTab == [shown |-> "", least |-> NoThickness]

NoClosest ==
    [input_wt |-> NoThickness, raised |-> FALSE, wt |-> NoThickness, message |-> << >>,
     runs |-> 0]

NoProbe == [called |-> FALSE]

\* nominal thicknesses the program hands to the effective-thickness
\* functions: the input thickness and the candidates of the catalogue
NominalThicknesses(p) ==
    {p.wt_in} \cup { get_standard_thicknesses(p.od_in)[k] :
                        k \in 1..Len(get_standard_thicknesses(p.od_in)) }

\* scenario['geometry'] of main.py: no allowances, and the allowances of app.py
ScenarioGeometries ==
    { [corrosion_allowance_inches |-> 0, mill_tolerance_percent |-> 0],
      [corrosion_allowance_inches |-> CORROSION_RATE_PER_YEAR * DESIGN_LIFE_YEARS,
       mill_tolerance_percent |-> MILL_TOLERANCE] }

NoWalls == [called |-> FALSE]

NoVariant == [built |-> FALSE]

\* the thicknesses of the input form for the diameter of p that are at least
\* the thickness of p
ThickerWalls(p) == { g[2] : g \in { h \in Geometries : h[1] = p.od_in /\ h[2] >= p.wt_in } }

\* the four checks on the wall, called with the same pressures
WallChecks(p, p_internal, p_external, wt_eff) ==
    [wt_eff |-> wt_eff,
     burst |-> compute_burst(p, p_internal, p_external, wt_eff),
     collapse |-> compute_collapse(p, p_internal, p_external, wt_eff),
     propagation |-> compute_propagation(p, p_internal, p_external, wt_eff),
     hoop |-> compute_hoop(p, p_internal, p_external, wt_eff)]

NoPair == [called |-> FALSE]

MaxCellCalls == 2

\* a slot of the results dict that has no cell yet
NoCell == [evaluated |-> FALSE]

\* results = {"installation": {}, "hydrotest": {}, "operation": {}}
NoStored == [k \in 1..Len(CellOrder) |-> NoCell]

\* the loadings of the cell-by-cell evaluation: the deepest, highest-pressure
\* loading, with the wellhead at either end
CellLoads ==
    { l \in Loads : /\ l.design_pressure_psi = MaxDesignSteps * DesignStep
                    /\ l.shut_in_pressure_psi = MaxShutInSteps * ShutInStep
                    /\ l.water_depth_m = MaxDepthSteps * DepthStep }

NoScenario ==
    [least_thickness |-> NoThickness, recommended_thickness |-> NoThickness, returned |-> ""]

-----------------------------------------------------------------------------
(* State machine *)

Init ==
    /\ \/ pc = "ready" /\ pipe \in Pipes /\ load \in Loads
       \/ pc = "cli" /\ pipe \in ScenarioPipes /\ load = ScenarioLoad
    /\ result = NoResult
    /\ thicknesses = << >>
    /\ idx = 0
    /\ records = << >>
    /\ runs = 0
    /\ tab = NoTab
    /\ closest = NoClosest
    /\ scn = NoScenario
    /\ probe = NoProbe
    /\ rerun = NoResult
    /\ stored = NoStored
    /\ walls = NoWalls
    /\ pair = NoPair
    /\ variant = NoVariant

\* a call of each of the six checks on pressures and a thickness variant of the
\* caller
RunChecks ==
    /\ pc = "ready"
    /\ \E p_internal \in ProbePressures, p_external \in ProbePressures,
          position \in {"Top", "Bottom"}, flag \in BOOLEAN :
         LET wt_eff == effective_wall_thickness(pipe, flag, flag)
         IN probe' =
              [called |-> TRUE,
               wt_eff |-> wt_eff,
               p_internal |-> p_internal,
               p_external |-> p_external,
               position |-> position,
               burst |-> compute_burst(pipe, p_internal, p_external, wt_eff),
               collapse |-> compute_collapse(pipe, p_internal, p_external, wt_eff),
               propagation |-> compute_propagation(pipe, p_internal, p_external, wt_eff),
               hoop |-> compute_hoop(pipe, p_internal, p_external, wt_eff),
               longitudinal |-> calculate_longitudinal_load(pipe, load, wt_eff, p_internal,
                                                            p_external, "Operation", position),
               combined |-> calculate_combined_load(pipe, load, wt_eff, p_internal,
                                                    p_external, "Operation", position)]
    /\ pc' = "checked"
    /\ UNCHANGED <<pipe, load, result, thicknesses, idx, records, runs, tab, closest, scn, rerun, stored, walls, pair, variant>>

\* calls of the four checks on the wall at two thicknesses, the second at least
\* the first, with the same pressures, pipe and material
RunChecksAtTwoWalls ==
    /\ pc = "ready"
    /\ \E p_internal \in ProbePressures, p_external \in ProbePressures,
          wt \in ThickerWalls(pipe), flag \in BOOLEAN :
         pair' =
           [called |-> TRUE,
            p_internal |-> p_internal,
            p_external |-> p_external,
            thinner |-> WallChecks(pipe, p_internal, p_external,
                                   effective_wall_thickness(pipe, flag, flag)),
            thicker |-> WallChecks(pipe, p_internal, p_external,
                                   effective_wall_thickness(pipe_variant(pipe, wt), flag, flag))]
    /\ pc' = "compared"
    /\ UNCHANGED <<pipe, load, result, thicknesses, idx, records, runs, tab, closest, scn, probe, rerun, stored, walls, variant>>

\* a call of the two effective-thickness functions, for each setting of the
\* two flags, on one nominal thickness
EffectiveWalls ==
    /\ pc = "ready"
    /\ \E nominal_wt \in NominalThicknesses(pipe), geometry \in ScenarioGeometries :
         walls' =
           [called |-> TRUE,
            nominal_wt |-> nominal_wt,
            geometry |-> geometry,
            app |-> [use_mill_tolerance \in BOOLEAN |-> [use_corrosion \in BOOLEAN |->
                       effective_wall_thickness(pipe_variant(pipe, nominal_wt),
                                                use_mill_tolerance, use_corrosion)]],
            cli |-> [apply_mill_tolerance \in BOOLEAN |-> [apply_corrosion \in BOOLEAN |->
                       get_effective_wall_thickness(nominal_wt,
                                                    geometry.corrosion_allowance_inches,
                                                    geometry.mill_tolerance_percent,
                                                    apply_corrosion, apply_mill_tolerance)]]]
    /\ pc' = "walls"
    /\ UNCHANGED <<pipe, load, result, thicknesses, idx, records, runs, tab, closest, scn, probe, rerun, stored, pair, variant>>

\* app.main: the Calculate button runs the orchestrator on the inputs
Calculate ==
    /\ pc = "ready"
    /\ result' = run_all_conditions(pipe, load)
    /\ pc' = IF result'.raised THEN "raised" ELSE "calculated"
    /\ UNCHANGED <<pipe, load, thicknesses, idx, records, runs, tab, closest, scn, probe, rerun, stored, walls, pair, variant>>

\* a second call of run_all_conditions on the analyzer of the first: the
\* analyzer holds self.pipe and self.load, which no method assigns
Recalculate ==
    /\ pc \in {"calculated", "raised"}
    /\ rerun' = run_all_conditions(pipe, load)
    /\ pc' = "recalculated"
    /\ UNCHANGED <<pipe, load, result, thicknesses, idx, records, runs, tab, closest, scn, probe, stored, walls, pair, variant>>

\* evaluate_standard_thicknesses up to its loop
EvaluateStart ==
    /\ pc \in {"ready", "calculated"}
    /\ thicknesses' = get_standard_thicknesses(pipe.od_in)
    /\ records' = << >>
    /\ runs' = 0
    /\ IF thicknesses' = << >>
       THEN idx' = 0 /\ pc' = "evaluated"
       ELSE idx' = 1 /\ pc' = "evaluating"
    /\ UNCHANGED <<pipe, load, result, tab, closest, scn, probe, rerun, stored, walls, pair, variant>>

\* variant: the loop ends with the first candidate that passes
loop_ends_on_pass(k, candidates, row) == k = Len(candidates) \/ row.status = "PASS"

\* "for wt in thicknesses": the loop ends after the last candidate, whatever
\* its row says
loop_ends(k, candidates, row) == k = Len(candidates)

\* one iteration of the loop of evaluate_standard_thicknesses
EvaluateStep ==
    /\ pc = "evaluating"
    /\ idx <= Len(thicknesses)
    /\ LET row == StandardRow(pipe, load, thicknesses[idx])
       IN IF row.raised
          THEN pc' = "search_raised" /\ UNCHANGED <<records, idx>>
          ELSE /\ records' = Append(records, row)
               /\ idx' = idx + 1
               /\ pc' = IF loop_ends(idx, thicknesses, row) THEN "evaluated" ELSE "evaluating"
    /\ runs' = runs + 1
    /\ variant' = [built |-> TRUE,
                   pipe |-> pipe_variant(pipe, thicknesses[idx]),
                   load |-> load]
    /\ UNCHANGED <<pipe, load, result, thicknesses, tab, closest, scn, probe, rerun, stored, walls, pair>>

\* render_results, the Standard Thickness tab, once the table is there
RenderStandardTab ==
    /\ pc = "evaluated"
    /\ result # NoResult
    /\ LET df_std == records
           passing == PassingRows(df_std)
       IN IF df_std = << >>
          THEN /\ tab' = [shown |-> "No standard thicknesses found for this OD.",
                          least |-> NoThickness]
               /\ closest' = closest
               /\ pc' = "rendered"
          ELSE IF passing # << >>
          THEN /\ tab' = [shown |-> "Least passing thickness", least |-> passing[1].wt]
               /\ closest' = ClosestCall(pipe, load, pipe.wt_in)
               /\ pc' = IF closest'.raised THEN "search_raised" ELSE "rendered"
          ELSE /\ tab' = [shown |-> "No standard thickness meets all criteria.",
                          least |-> NoThickness]
               /\ closest' = closest
               /\ pc' = "rendered"
    /\ UNCHANGED <<pipe, load, result, thicknesses, idx, records, runs, scn, probe, rerun, stored, walls, pair, variant>>

\* a call of find_closest_passing_standard_wt with a thickness of the caller
FindClosest ==
    /\ pc = "ready"
    /\ \E input_wt \in InputThicknesses(pipe) :
         /\ closest' = ClosestCall(pipe, load, input_wt)
         /\ runs' = closest'.runs
         /\ pc' = IF closest'.raised THEN "search_raised" ELSE "closest"
    /\ UNCHANGED <<pipe, load, result, thicknesses, idx, records, tab, scn, probe, rerun, stored, walls, pair, variant>>

\* variant: the recommended thickness follows every passing thickness
recommend_last_passing(s, all_conditions_pass, wt) ==
    IF all_conditions_pass
    THEN [s EXCEPT !.least_thickness = IF @ = NoThickness THEN wt ELSE @,
                   !.recommended_thickness = wt]
    ELSE s

\* "if all_conditions_pass and least_thickness is None": the first passing
\* thickness is kept as the least and as the recommended thickness
UpdateLeast(s, all_conditions_pass, wt) ==
    IF all_conditions_pass /\ s.least_thickness = NoThickness
    THEN [s EXCEPT !.least_thickness = wt, !.recommended_thickness = wt]
    ELSE s

\* main.analyze_scenario up to its loop
ScenarioStart ==
    /\ pc = "cli"
    /\ thicknesses' = get_standard_thicknesses(pipe.od_in)
    /\ IF thicknesses' = << >>
       THEN /\ scn' = [scn EXCEPT !.returned = "None"]
            /\ idx' = 0
            /\ pc' = "cli_done"
       ELSE /\ scn' = scn
            /\ idx' = 1
            /\ pc' = "cli_loop"
    /\ UNCHANGED <<pipe, load, result, records, runs, tab, closest, probe, rerun, stored, walls, pair, variant>>

\* one iteration of the loop of main.analyze_scenario; the results of
\* analyze_condition for the thickness are inputs of the step
ScenarioStep ==
    /\ pc = "cli_loop"
    /\ idx <= Len(thicknesses)
    /\ \E condition_results \in [1..Len(condition_order) -> ConditionOutcomes] :
         LET wt == thicknesses[idx]
             all_conditions_pass ==
                 \A k \in 1..Len(condition_order) : condition_results[k].all_pass
         IN /\ records' = Append(records, [wall_thickness |-> wt,
                                           all_pass |-> all_conditions_pass,
                                           conditions |-> condition_results])
            /\ scn' = UpdateLeast(scn, all_conditions_pass, wt)
    /\ idx' = idx + 1
    /\ UNCHANGED <<pipe, load, pc, result, thicknesses, runs, tab, closest, probe, rerun, stored, walls, pair, variant>>

\* the return of main.analyze_scenario after its loop
ScenarioReturn ==
    /\ pc = "cli_loop"
    /\ idx > Len(thicknesses)
    /\ scn' = [scn EXCEPT !.returned = "dict"]
    /\ pc' = "cli_done"
    /\ UNCHANGED <<pipe, load, result, thicknesses, idx, records, runs, tab, closest, probe, rerun, stored, walls, pair, variant>>

\* the cell of slot k as analyze_condition_at_position returns it
CellAt(k) ==
    [evaluated |-> TRUE] @@
    analyze_condition_at_position(pipe, load, CellOrder[k].condition_name,
                                  CellOrder[k].position, CellOrder[k].use_mill,
                                  CellOrder[k].use_corr)

\* a call of analyze_condition_at_position for one cell that has not been
\* evaluated yet, whichever it is; its result goes into the slot of the cell
CallCell ==
    /\ pc \in {"calculated", "cells"}
    /\ Cardinality({k \in 1..Len(stored) : stored[k].evaluated}) < MaxCellCalls
    /\ \E k \in 1..Len(stored) :
         /\ ~stored[k].evaluated
         /\ stored' = [stored EXCEPT ![k] = CellAt(k)]
    /\ pc' = "cells"
    /\ UNCHANGED <<pipe, load, result, thicknesses, idx, records, runs, tab, closest, scn, probe, rerun, walls, pair, variant>>

\* the cells that are left, evaluated in the order of the loops
CallRemaining ==
    /\ pc = "cells"
    /\ stored' = [k \in 1..Len(stored) |->
                    IF stored[k].evaluated THEN stored[k] ELSE CellAt(k)]
    /\ pc' = "collected"
    /\ UNCHANGED <<pipe, load, result, thicknesses, idx, records, runs, tab, closest, scn, probe, rerun, walls, pair, variant>>

Next ==
    \/ RunChecks
    \/ RunChecksAtTwoWalls
    \/ EffectiveWalls
    \/ Calculate
    \/ Recalculate
    \/ EvaluateStart
    \/ EvaluateStep
    \/ RenderStandardTab
    \/ FindClosest
    \/ ScenarioStart
    \/ ScenarioStep
    \/ ScenarioReturn

Spec == Init /\ [][Next]_vars

\* The cells of one analysis, evaluated out of order by a caller of
\* analyze_condition_at_position after the run of the orchestrator
CellInit ==
    /\ Init
    /\ pc = "ready"
    /\ load \in CellLoads

CellNext ==
    \/ Calculate
    \/ CallCell
    \/ CallRemaining

CellSpec == CellInit /\ [][CellNext]_vars

-----------------------------------------------------------------------------
(* Properties *)

\* the cells of the run of (pipe, load); none before the run and when it raised
Cells == result.conditions

OperationCells == { k \in 1..Len(Cells) : Cells[k].condition_name = "Operation" }

\* the six checks of a cell, each with its pass flag
SixChecks(c) ==
    { [chk |-> c.checks[i], pass |-> c.checks[i].pass_fail] : i \in 1..Len(c.checks) }
    \cup { [chk |-> c.longitudinal, pass |-> c.longitudinal.passes],
           [chk |-> c.combined, pass |-> c.combined.passes] }

\* the six checks called on their own
ProbedChecks ==
    { [chk |-> probe.burst, pass |-> probe.burst.pass_fail],
      [chk |-> probe.collapse, pass |-> probe.collapse.pass_fail],
      [chk |-> probe.propagation, pass |-> probe.propagation.pass_fail],
      [chk |-> probe.hoop, pass |-> probe.hoop.pass_fail],
      [chk |-> probe.longitudinal, pass |-> probe.longitudinal.passes],
      [chk |-> probe.combined, pass |-> probe.combined.passes] }

\* the catalogue of the pipe's diameter, as a set
Catalogue == LET ths == get_standard_thicknesses(pipe.od_in)
             IN { ths[k] : k \in 1..Len(ths) }

\* the run of the candidate wt passes
Passes(wt) == run_all_conditions(pipe_variant(pipe, wt), load).all_conditions_pass

StabilityPressure(position) ==
    LET shut_in == load.shut_in_pressure_psi
        head == hydrostatic_head_psi(pipe, load)
        subsea == load.shut_in_location = "Subsea Wellhead"
        at_wellhead == (subsea /\ position = "Bottom") \/ (~subsea /\ position = "Top")
    IN IF at_wellhead THEN shut_in
       ELSE IF subsea THEN Max(shut_in - head, 0)
       ELSE shut_in + head

Favorable(x) == x.chk.demand <= 0 => (x.chk.safety_factor = Inf /\ x.pass)

C4_PassIsConjunction ==
    /\ (result # NoResult /\ ~result.raised) =>
           (result.all_conditions_pass <=> \A k \in 1..Len(Cells) : Cells[k].all_pass)
    /\ \A k \in 1..Len(Cells) :
           Cells[k].all_pass <=> \A x \in SixChecks(Cells[k]) : x.pass

\* a run that fails on one check of one cell only
C4_Witness ==
    /\ ~result.all_conditions_pass
    /\ \E k \in 1..Len(Cells) :
         /\ Cardinality({ x \in SixChecks(Cells[k]) : ~x.pass }) = 1
         /\ \A j \in 1..Len(Cells) : j # k => Cells[j].all_pass

\* the Standard Thickness tab reports the first passing thickness of the catalogue
TabLeastIsFirstPassing ==
    tab # NoTab =>
        IF tab.least = NoThickness
        THEN \A t \in Catalogue : ~Passes(t)
        ELSE /\ tab.least \in Catalogue
             /\ Passes(tab.least)
             /\ \A t \in Catalogue : t < tab.least => ~Passes(t)

\* analyze_scenario holds the first passing thickness of the entries made so far
ScenarioLeastIsFirstPassing ==
    pc \in {"cli", "cli_loop", "cli_done"} =>
        IF scn.least_thickness = NoThickness
        THEN \A i \in 1..Len(records) : ~records[i].all_pass
        ELSE \E i \in 1..Len(records) :
                /\ records[i].wall_thickness = scn.least_thickness
                /\ records[i].all_pass
                /\ \A j \in 1..(i - 1) :
                      ~records[j].all_pass /\ records[j].wall_thickness < scn.least_thickness

\* C5: the least passing thickness is the first thickness of the ascending
\* catalogue whose run passes (every smaller one fails), none is reported when no
\* candidate passes, and a least thickness once set is never replaced
C5_LeastPassingIsFirst ==
    /\ [](TabLeastIsFirstPassing /\ ScenarioLeastIsFirstPassing)
    /\ [][scn.least_thickness # NoThickness
            => scn'.least_thickness = scn.least_thickness]_vars

\* the tab reports a least thickness that is neither the smallest of the
\* catalogue nor the only passing one
C5_Witness ==
    /\ tab.least # NoThickness
    /\ \E t \in Catalogue : t < tab.least
    /\ \E i \in 1..Len(records) : records[i].status = "PASS" /\ records[i].wt > tab.least

\* C6: find_closest_passing_standard_wt returns the smallest catalogue thickness
\* >= the input whose run passes: a member of the catalogue, >= the input, equal
\* to the input when the input is itself a passing standard thickness, with no
\* passing catalogue thickness between the input and it; and no thickness only
\* when no catalogue thickness >= the input passes
C6_ClosestIsSmallestPassingAbove ==
    (closest.input_wt # NoThickness /\ ~closest.raised) =>
        IF closest.wt = NoThickness
        THEN \A t \in Catalogue : t >= closest.input_wt => ~Passes(t)
        ELSE /\ closest.wt \in Catalogue
             /\ closest.wt >= closest.input_wt
             /\ Passes(closest.wt)
             /\ \A t \in Catalogue : (closest.input_wt <= t /\ t < closest.wt) => ~Passes(t)
             /\ (closest.input_wt \in Catalogue /\ Passes(closest.input_wt))
                    => closest.wt = closest.input_wt

\* a call that skips a failing catalogue thickness >= the input
C6_Witness ==
    /\ closest.input_wt # NoThickness
    /\ closest.wt # NoThickness
    /\ \E t \in Catalogue : closest.input_wt <= t /\ t < closest.wt

\* the largest utilization main.analyze_condition reported for an entry
MaxUtilization(entry) ==
    LET u == { entry.conditions[k].utilization : k \in 1..Len(entry.conditions) }
    IN CHOOSE x \in u : \A y \in u : y <= x

\* the entries that pass with a utilization of at most 0.85
WithMargin == { i \in 1..Len(records) :
                  records[i].all_pass /\ MaxUtilization(records[i]) <= 850 }

\* C7: the recommended thickness returned by analyze_scenario is the least
\* passing thickness: the first entry that passes, whatever its utilization, and
\* none when no entry passes
C7_RecommendedIsLeastPassing ==
    /\ scn.recommended_thickness = scn.least_thickness
    /\ scn.returned = "dict" =>
         IF \E i \in 1..Len(records) : records[i].all_pass
         THEN LET first == CHOOSE i \in 1..Len(records) :
                              records[i].all_pass /\ \A j \in 1..(i - 1) : ~records[j].all_pass
              IN scn.recommended_thickness = records[first].wall_thickness
         ELSE scn.recommended_thickness = NoThickness

\* analyze_scenario returned; the first passing entry has a utilization above
\* 0.85 and a later entry passes with at most 0.85
C7_Witness ==
    /\ scn.returned = "dict"
    /\ scn.least_thickness # NoThickness
    /\ \E i \in WithMargin : records[i].wall_thickness > scn.least_thickness
    /\ \A i \in WithMargin : records[i].wall_thickness # scn.least_thickness

\* C7 as stated: the recommended thickness is the first passing thickness whose
\* largest utilization is <= 0.85, and the least passing one when there is none
C7_RecommendedHasMargin ==
    scn.returned = "dict" =>
        IF WithMargin # {}
        THEN LET first == CHOOSE i \in WithMargin : \A j \in WithMargin : i <= j
             IN scn.recommended_thickness = records[first].wall_thickness
        ELSE scn.recommended_thickness = scn.least_thickness

\* C8: for a diameter the table does not have, evaluate_standard_thicknesses
\* returns the empty table and find_closest_passing_standard_wt returns no
\* thickness with its message; the orchestrator is not run and nothing is raised
C8_DiameterOutsideTable ==
    ~InTable(pipe.od_in) =>
        /\ thicknesses = << >>
        /\ records = << >>
        /\ runs = 0
        /\ pc \notin {"evaluating", "search_raised"}
        /\ closest.input_wt # NoThickness =>
             /\ closest.wt = NoThickness
             /\ closest.message = <<"No standard thicknesses available">>
             /\ closest.runs = 0
             /\ ~closest.raised

\* find_closest_passing_standard_wt was called for a diameter outside the table
C8_Witness ==
    /\ ~InTable(pipe.od_in)
    /\ pc = "closest"
    /\ closest.input_wt # NoThickness
    /\ closest.wt = NoThickness

\* C9: no call of a check and no run of the orchestrator or of the search lets
\* an exception escape
C9_NoExceptionEscapes ==
    /\ pc \notin {"raised", "search_raised"}
    /\ probe.called =>
         /\ ~probe.burst.raised
         /\ ~probe.collapse.raised
         /\ ~probe.propagation.raised
         /\ ~probe.hoop.raised
         /\ ~probe.combined.raised

\* C10: in a cell whose effective thickness is at least half the diameter, or at
\* most the floor of 0.001 in, none of the checks on the wall passes
C10_InvalidGeometryIsNotPassing ==
    \A k \in 1..Len(Cells) :
        (2 * Cells[k].wt_effective >= pipe.od_in \/ Cells[k].wt_effective <= 1) =>
            \A i \in 1..Len(Cells[k].checks) : ~Cells[k].checks[i].pass_fail

Evaluated == {k \in 1..Len(stored) : stored[k].evaluated}

\* a slot holds what the run of the orchestrator holds for the same cell
SameAsInOrder(k) ==
    [x \in DOMAIN result.conditions[k] |-> stored[k][x]] = result.conditions[k]

C13_MopFormula ==
    \A k \in 1..Len(Cells) :
        LET mop == Cells[k].mop_psi
            head == hydrostatic_head_psi(pipe, load)
        IN /\ load.shut_in_location = "Subsea Wellhead" =>
                mop = (IF load.shut_in_pressure_psi - head > 0
                       THEN load.shut_in_pressure_psi - head
                       ELSE 0)
           /\ load.shut_in_location = "Top of Riser" => mop = load.shut_in_pressure_psi
           /\ 0 <= mop
           /\ mop <= load.shut_in_pressure_psi

\* a run with a subsea wellhead whose head exceeds a positive shut-in pressure:
\* the floor decides the MOP
C13_Witness ==
    /\ Len(Cells) = Len(CellOrder)
    /\ load.shut_in_location = "Subsea Wellhead"
    /\ load.shut_in_pressure_psi > 0
    /\ hydrostatic_head_psi(pipe, load) > load.shut_in_pressure_psi
    /\ Cells[1].mop_psi = 0

HydrotestCells == { k \in 1..Len(Cells) : Cells[k].condition_name = "Hydrotest" }

\* 1.25 x design pressure, and what is left of it above the head of the test fluid
HydrotestBase == FDiv(load.design_pressure_psi * 125, 100)

HydrotestAtTop ==
    IF HydrotestBase - hydrostatic_head_psi(pipe, load) > 0
    THEN HydrotestBase - hydrostatic_head_psi(pipe, load)
    ELSE 0

\* C14: in every Hydrotest cell each of the six checks is evaluated with
\* 1.25 x design pressure at Bottom and with max(0, 1.25 x design pressure -
\* head of the test fluid) at Top, for either wellhead location; the pressure
\* at Top is not negative and does not exceed the pressure at Bottom
C14_HydrotestPressure ==
    /\ \A k \in HydrotestCells : \A x \in SixChecks(Cells[k]) :
          /\ Cells[k].position = "Bottom" => x.chk.p_internal = HydrotestBase
          /\ Cells[k].position = "Top" => x.chk.p_internal = HydrotestAtTop
    /\ \A j, k \in HydrotestCells :
          (Cells[j].position = "Top" /\ Cells[k].position = "Bottom") =>
              /\ 0 <= Cells[j].p_internal_burst
              /\ Cells[j].p_internal_burst <= Cells[k].p_internal_burst
              /\ 0 <= Cells[j].p_internal_collapse
              /\ Cells[j].p_internal_collapse <= Cells[k].p_internal_collapse

\* a run with a positive design pressure and a riser long enough for a head:
\* the test pressure at Top is positive and below that at Bottom
C14_Witness ==
    /\ HydrotestCells # {}
    /\ hydrostatic_head_psi(pipe, load) > 0
    /\ \E j, k \in HydrotestCells :
          /\ Cells[j].position = "Top" /\ Cells[k].position = "Bottom"
          /\ 0 < Cells[j].p_internal_burst
          /\ Cells[j].p_internal_burst < Cells[k].p_internal_burst

\* C15: in every cell, of whatever stage, the external pressure is 14.7 psi at
\* Top and 14.7 + 64 x depth_ft / 144 at Bottom, depth_ft = depth_m x 3.28084
C15_ExternalPressure ==
    \A k \in 1..Len(Cells) :
        LET depth_ft == FDiv(load.water_depth_m * 328084, 10000)
        IN /\ Cells[k].position = "Top" => Cells[k].p_external_psi = 147
           /\ Cells[k].position = "Bottom" =>
                Cells[k].p_external_psi = 147 + FDiv(64 * depth_ft, 144)

\* a run in deep water: the cells at Bottom of the three stages carry the
\* water column, the cells at Top do not
C15_Witness ==
    /\ load.water_depth_m > 0
    /\ \A stage \in {"Installation", "Hydrotest", "Operation"} :
          \E j, k \in 1..Len(Cells) :
              /\ Cells[j].condition_name = stage /\ Cells[j].position = "Top"
              /\ Cells[k].condition_name = stage /\ Cells[k].position = "Bottom"
              /\ Cells[k].p_external_psi > Cells[j].p_external_psi

\* the thickness does not grow when a flag is turned on, and stays positive
MonotoneAndPositive(wt) ==
    /\ \A b \in BOOLEAN : wt[TRUE][b] <= wt[FALSE][b] /\ wt[b][TRUE] <= wt[b][FALSE]
    /\ \A a, b \in BOOLEAN : wt[a][b] >= 1

\* C16: for every nominal thickness, turning on the mill tolerance or the
\* corrosion flag with the other flag fixed never increases the effective
\* thickness, and the effective thickness is at least the floor of 0.001 in;
\* this holds for effective_wall_thickness and for get_effective_wall_thickness
C16_EffectiveThicknessMonotone ==
    walls.called => MonotoneAndPositive(walls.app) /\ MonotoneAndPositive(walls.cli)

\* a catalogue thickness below the corrosion allowance: the floor is reached
\* with both flags on, and each flag alone reduces the nominal thickness
C16_Witness ==
    /\ walls.called
    /\ walls.app[TRUE][TRUE] = 1
    /\ walls.cli[TRUE][TRUE] = 1
    /\ walls.app[TRUE][FALSE] < walls.app[FALSE][FALSE]
    /\ walls.app[FALSE][TRUE] < walls.app[FALSE][FALSE]

\* the safety factors of the four checks on the wall do not fall from the
\* thinner wall to the thicker one
NotFalling ==
    /\ pair.thicker.burst.safety_factor >= pair.thinner.burst.safety_factor
    /\ pair.thicker.hoop.safety_factor >= pair.thinner.hoop.safety_factor
    /\ pair.thicker.collapse.safety_factor >= pair.thinner.collapse.safety_factor
    /\ pair.thicker.propagation.safety_factor >= pair.thinner.propagation.safety_factor

\* C17: for fixed pressures, pipe and material and two thicknesses t1 <= t2, the
\* safety factor of each of burst, hoop, collapse and propagation at t2 is at
\* least the one at t1
C17_SafetyFactorNonDecreasing ==
    pair.called => NotFalling

\* the same for two thicknesses below the diameter, where the burst pressure
\* and the hoop stress are computed from the formulas
SafetyFactorNonDecreasingBelowDiameter ==
    pair.called /\ pair.thicker.wt_eff < pipe.od_in => NotFalling

\* two different thicknesses below the diameter with a finite burst safety factor
BelowDiameterCompared ==
    /\ pair.called
    /\ pair.thinner.wt_eff < pair.thicker.wt_eff
    /\ pair.thicker.wt_eff < pipe.od_in
    /\ pair.thinner.burst.safety_factor < pair.thicker.burst.safety_factor
    /\ pair.thinner.burst.safety_factor > 0

\* the base pipe with the wall wt and nothing else changed
BaseWithWall(wt) == [pipe EXCEPT !.wt_in = wt]

\* C18: the pipe of each candidate of the search differs from the base pipe in
\* the wall thickness only, which is the candidate's, and its analyzer has the
\* caller's loading; the row a candidate adds to the table, and the thickness
\* the closest search returns, are those of a run on that pipe alone, whatever
\* was run before; and no step changes the base pipe or the loading
C18_FreshPipePerCandidate ==
    /\ [](/\ variant.built =>
              /\ variant.pipe = BaseWithWall(thicknesses[runs])
              /\ variant.load = load
          /\ pc \in {"evaluating", "evaluated", "rendered"} =>
              /\ \A k \in 1..Len(records) : records[k].wt = thicknesses[k]
              /\ records # << >> =>
                   (records[Len(records)].status = "PASS"
                      <=> run_all_conditions(BaseWithWall(thicknesses[Len(records)]),
                                             load).all_conditions_pass)
          /\ closest.wt # NoThickness =>
              run_all_conditions(BaseWithWall(closest.wt), load).all_conditions_pass)
    /\ [][pipe' = pipe /\ load' = load]_vars

\* a search that ran several candidates, of which some fail and a later one
\* passes, on a base pipe whose own wall is none of them
C18_Witness ==
    /\ pc = "evaluated"
    /\ variant.built
    /\ variant.pipe.wt_in # pipe.wt_in
    /\ Len(records) > 2
    /\ records[1].status = "FAIL"
    /\ records[Len(records)].status = "PASS"

\* the cells a run has to evaluate: <<stage, tolerance, corrosion, position>>
ExpectedCells ==
    ({"Installation", "Hydrotest"} \X BOOLEAN \X {FALSE} \X {"Top", "Bottom"})
    \cup ({"Operation"} \X BOOLEAN \X BOOLEAN \X {"Top", "Bottom"})

\* the cells a run has evaluated
EvaluatedCells ==
    { <<Cells[k].condition_name, Cells[k].mill_tolerance_applied,
        Cells[k].corrosion_applied, Cells[k].position>> : k \in 1..Len(Cells) }

\* the keys results[stage][wt_key]["positions"][position] of the cells
CellKeys ==
    { <<Cells[k].condition_name, Cells[k].wt_key, Cells[k].position>> : k \in 1..Len(Cells) }

LimitingIsFirstSmallest(c) ==
    LET b == c.checks[1].safety_factor
        cl == c.checks[2].safety_factor
        pr == c.checks[3].safety_factor
        h == c.checks[4].safety_factor
    IN /\ <<c.checks[1].name, c.checks[2].name, c.checks[3].name, c.checks[4].name>>
            = <<"Burst", "Collapse", "Propagation", "Hoop Stress">>
       /\ c.limiting.name = "Burst" <=> (b <= cl /\ b <= pr /\ b <= h)
       /\ c.limiting.name = "Collapse" <=> (cl < b /\ cl <= pr /\ cl <= h)
       /\ c.limiting.name = "Propagation" <=> (pr < b /\ pr < cl /\ pr <= h)
       /\ c.limiting.name = "Hoop Stress" <=> (h < b /\ h < cl /\ h < pr)
       /\ \E i \in 1..4 : c.limiting = c.checks[i]
       /\ (b = Inf /\ cl = Inf /\ pr = Inf /\ h = Inf) => c.limiting.name = "Burst"

\* C20: the limiting check of every cell is one of burst, collapse, propagation
\* and hoop, never longitudinal or combined; it has the smallest safety factor
\* of the four; of several with the smallest safety factor it is the first in
\* the order burst, collapse, propagation, hoop; and it is burst when all four
\* safety factors are infinite
C20_LimitingCheck ==
    \A k \in 1..Len(Cells) : LimitingIsFirstSmallest(Cells[k])

\* a run with a cell whose four safety factors are all infinite, a cell whose
\* limiting check is not burst, and a cell whose longitudinal or combined
\* safety factor is below the one of its limiting check
C20_Witness ==
    /\ pc = "calculated"
    /\ \E k \in 1..Len(Cells) :
         \A i \in 1..4 : Cells[k].checks[i].safety_factor = Inf
    /\ \E k \in 1..Len(Cells) :
         /\ Cells[k].limiting.name # "Burst"
         /\ Cells[k].limiting.safety_factor < Inf
    /\ \E k \in 1..Len(Cells) :
         \/ Cells[k].longitudinal.safety_factor < Cells[k].limiting.safety_factor
         \/ Cells[k].combined.safety_factor < Cells[k].limiting.safety_factor

\* the candidates of the loop are the catalogue of the diameter, ascending
AscendingCatalogue ==
    /\ thicknesses = get_standard_thicknesses(pipe.od_in)
    /\ \A j, k \in 1..Len(thicknesses) : j < k => thicknesses[j] < thicknesses[k]

\* C21: evaluate_standard_thicknesses, and the loop of analyze_scenario, take
\* the catalogue thicknesses in ascending order; every iteration runs the
\* orchestrator once and adds one row, that of the next candidate, and keeps
\* the rows before it; the loop ends only after the last candidate, so the
\* table has one row per candidate whether earlier candidates pass or fail
C21_OneRunPerCandidate ==
    /\ [](/\ pc \in {"evaluating", "evaluated", "rendered"} =>
              /\ AscendingCatalogue
              /\ runs = Len(records)
              /\ \A k \in 1..Len(records) : records[k].wt = thicknesses[k]
          /\ pc = "evaluating" => Len(records) = idx - 1 /\ idx <= Len(thicknesses)
          /\ pc \in {"evaluated", "rendered"} => Len(records) = Len(thicknesses)
          /\ pc \in {"cli_loop", "cli_done"} =>
              /\ AscendingCatalogue
              /\ \A k \in 1..Len(records) : records[k].wall_thickness = thicknesses[k]
          /\ pc = "cli_loop" => Len(records) = idx - 1
          /\ pc = "cli_done" => Len(records) = Len(thicknesses))
    /\ [][pc = "evaluating" =>
            /\ runs' = runs + 1
            /\ Len(records') = Len(records) + 1
            /\ SubSeq(records', 1, Len(records)) = records]_vars

\* a finished table in which a candidate fails, a later one passes, and a
\* candidate after the passing one has its row as well
C21_Witness ==
    /\ pc = "evaluated"
    /\ \E j, k \in 1..Len(records) :
         /\ j < k /\ k < Len(records)
         /\ records[j].status = "FAIL"
         /\ records[k].status = "PASS"

\* the collapse factor of the specification for the pipe of the analyzer
SpecifiedCollapseFactor ==
    CASE pipe.manufacturing \in {"SMLS", "ERW"} -> 70
      [] pipe.manufacturing = "DSAW" -> 60

\* C22: the collapse check of every cell, and the collapse check called on its
\* own, has the collapse factor 0.70 for a seamless or an ERW pipe and 0.60
\* for a DSAW pipe
C22_CollapseFactor ==
    /\ \A k \in 1..Len(Cells) : Cells[k].checks[2].collapse_factor = SpecifiedCollapseFactor
    /\ probe.called => probe.collapse.collapse_factor = SpecifiedCollapseFactor

\* the same for the seamless and the DSAW pipes only
CollapseFactorOfSeamlessAndDsaw ==
    pipe.manufacturing # "ERW" => C22_CollapseFactor

\* a run on a DSAW pipe
DsawCalculated ==
    pc = "calculated" /\ pipe.manufacturing = "DSAW" /\ Len(Cells) = 16

\* the hoop checks of the cells and the one called on its own, each with the
\* thickness it was called with
HoopCalls ==
    { [hoop |-> Cells[k].checks[4], wt_eff |-> Cells[k].wt_effective] : k \in 1..Len(Cells) }
    \cup (IF probe.called THEN {[hoop |-> probe.hoop, wt_eff |-> probe.wt_eff]} ELSE {})

\* the calls with a thickness above 0 and below the diameter
ValidHoopCalls == { c \in HoopCalls : 0 < c.wt_eff /\ c.wt_eff < pipe.od_in }

\* the external pressure of a hoop check
ExternalOf(h) == h.p_internal - h.delta_p

CollapsePressureIs(c, x) ==
    /\ c.p_internal_collapse = x
    /\ c.checks[2].p_internal = x

TableRows ==
    IF pc \in {"evaluating", "evaluated", "rendered"}
    THEN { records[k] : k \in 1..Len(records) }
    ELSE {}

\* C25: the limiting check of every cell that passes has a safety factor of at
\* least 1, and every row of the table with the status PASS has a safety
\* factor of at least 1 and a utilization of at most 100 %
C25_PassingHasSafetyFactorOne ==
    /\ \A k \in 1..Len(Cells) : Cells[k].all_pass => Cells[k].limiting.safety_factor >= 1000
    /\ \A row \in TableRows :
          row.status = "PASS" => row.safety_factor >= 1000 /\ row.utilization <= 1000

\* a table with a passing row of finite safety factor and a failing row whose
\* safety factor is below 1, after a run with a passing cell
C25_Witness ==
    /\ \E k \in 1..Len(Cells) : Cells[k].all_pass /\ Cells[k].limiting.safety_factor < Inf
    /\ \E row \in TableRows :
         row.status = "PASS" /\ row.safety_factor < Inf /\ row.utilization > 0
    /\ \E row \in TableRows : row.status = "FAIL" /\ row.safety_factor < 1000

PassingThicknesses == { t \in Catalogue : Passes(t) }

\* the least thickness of a set of thicknesses
LeastOf(S) == CHOOSE t \in S : \A u \in S : t <= u

\* the least passing thickness
LeastPassing == LeastOf(PassingThicknesses)

\* C27: whenever find_closest_passing_standard_wt returns a thickness, some
\* catalogue thickness passes and the returned one is at least the least
\* passing one, and is the least passing one whenever the input is at most
\* that; the tab shows the two accordingly
C27_ClosestAgainstLeast ==
    closest.wt # NoThickness =>
        LET passing == PassingThicknesses
        IN /\ passing # {}
           /\ closest.wt >= LeastOf(passing)
           /\ closest.input_wt <= LeastOf(passing) => closest.wt = LeastOf(passing)
           /\ pc = "rendered" =>
                /\ tab.least = LeastOf(passing)
                /\ closest.wt >= tab.least
                /\ pipe.wt_in <= tab.least => closest.wt = tab.least

\* a tab whose closest thickness is above the least passing one, the input
\* thickness being above the least passing one
C27_Witness ==
    /\ pc = "rendered"
    /\ closest.wt # NoThickness
    /\ tab.least # NoThickness
    /\ closest.wt > tab.least
    /\ pipe.wt_in > tab.least

\* a call with an input below the least passing thickness, which it returns
ClosestIsLeast ==
    /\ pc = "closest"
    /\ closest.wt # NoThickness
    /\ closest.input_wt < closest.wt
    /\ closest.wt = LeastPassing
    /\ \E t \in Catalogue : t < closest.wt /\ t >= closest.input_wt

\* the cells of the run of the candidate wt
CellsOf(wt) == run_all_conditions(BaseWithWall(wt), load).conditions

\* the place of a stage in the order of the stages
StageRank(condition_name) ==
    CASE condition_name = "Installation" -> 1
      [] condition_name = "Hydrotest" -> 2
      [] condition_name = "Operation" -> 3

\* the cells come stage by stage, and Top before Bottom for each thickness type
InStageOrder(cells) ==
    \A j, k \in 1..Len(cells) :
        j < k =>
            /\ StageRank(cells[j].condition_name) <= StageRank(cells[k].condition_name)
            /\ (cells[j].condition_name = cells[k].condition_name
                 /\ cells[j].wt_key = cells[k].wt_key)
                => (cells[j].position = "Top" /\ cells[k].position = "Bottom")

\* the row reports the first cell of smallest limiting safety factor
ReportsFirstWorst(row, cells) ==
    LET least == LeastOf({ cells[k].limiting.safety_factor : k \in 1..Len(cells) })
        first == CHOOSE k \in 1..Len(cells) :
                     /\ cells[k].limiting.safety_factor = least
                     /\ \A j \in 1..(k - 1) : cells[j].limiting.safety_factor > least
    IN /\ InStageOrder(cells)
       /\ row.safety_factor = least
       /\ IF least = Inf
          THEN /\ row.limiting_condition = << >>
               /\ row.limiting_check = ""
               /\ row.utilization = 0
          ELSE /\ row.limiting_condition = <<cells[first].condition_name,
                                             cells[first].wt_key, cells[first].position>>
               /\ row.limiting_check = cells[first].limiting.name
               /\ row.utilization = FDiv(1000000, least)

\* C28: the row a candidate adds to the table reports the smallest limiting
\* safety factor of the cells of its run, with the condition and the check of
\* the first cell that has it, in the order Installation, Hydrotest,
\* Operation, thickness types as declared, Top before Bottom; were the
\* smallest infinite, the condition and the check would be empty and the
\* utilization 0
C28_RowReportsFirstWorstCell ==
    (pc \in {"evaluating", "evaluated"} /\ records # << >>) =>
        ReportsFirstWorst(records[Len(records)], CellsOf(records[Len(records)].wt))

\* a row whose smallest limiting safety factor is that of two cells, the
\* first of which, a cell at Top, is reported, and not of the first cell
C28_Witness ==
    /\ pc \in {"evaluating", "evaluated"}
    /\ records # << >>
    /\ LET row == records[Len(records)]
           cells == CellsOf(row.wt)
       IN /\ cells[1].limiting.safety_factor > row.safety_factor
          /\ row.limiting_condition[3] = "Top"
          /\ \E j, k \in 1..Len(cells) :
               /\ j < k
               /\ cells[j].limiting.safety_factor = row.safety_factor
               /\ cells[k].limiting.safety_factor = row.safety_factor

\* no row has an infinite safety factor
RowsAreFinite ==
    \A row \in TableRows : row.safety_factor < Inf

\* the three messages that come with no thickness
NoThicknessMessages ==
    { <<"No standard thicknesses available">>,
      <<"No standard thickness >= input thickness">>,
      <<"No passing standard thickness found">> }

\* C29: a call of find_closest_passing_standard_wt returns no thickness, with
\* the message of the case, when the diameter has no catalogue entry;
\* otherwise when no catalogue thickness is >= the input; otherwise when every
\* catalogue thickness >= the input fails; in every other case it returns a
\* thickness, with none of the three messages
C29_NoThicknessCases ==
    closest.input_wt # NoThickness =>
        LET above == { t \in Catalogue : t >= closest.input_wt }
        IN /\ ~closest.raised
           /\ IF Catalogue = {}
              THEN /\ closest.wt = NoThickness
                   /\ closest.message = <<"No standard thicknesses available">>
              ELSE IF above = {}
              THEN /\ closest.wt = NoThickness
                   /\ closest.message = <<"No standard thickness >= input thickness">>
              ELSE IF \A t \in above : ~Passes(t)
              THEN /\ closest.wt = NoThickness
                   /\ closest.message = <<"No passing standard thickness found">>
              ELSE /\ closest.wt # NoThickness
                   /\ closest.message \notin NoThicknessMessages

\* a call whose candidates all fail
C29_Witness ==
    /\ pc = "closest"
    /\ closest.wt = NoThickness
    /\ closest.message = <<"No passing standard thickness found">>
    /\ closest.runs > 1

\* a call for a diameter without a catalogue entry
ClosestWithoutCatalogue ==
    /\ pc = "closest"
    /\ closest.message = <<"No standard thicknesses available">>

\* a call with an input above the whole catalogue
ClosestAboveCatalogue ==
    /\ pc = "closest"
    /\ closest.message = <<"No standard thickness >= input thickness">>
    /\ Catalogue # {}

\* C30: in every cell the burst, hoop, longitudinal and combined checks have
\* one internal pressure, the recorded p_internal_burst, and the collapse and
\* propagation checks have one internal pressure, the recorded
\* p_internal_collapse; in an Installation or Hydrotest cell the two are equal
C30_OnePressurePerCheckFamily ==
    \A k \in 1..Len(Cells) :
        LET c == Cells[k]
        IN /\ c.checks[1].p_internal = c.p_internal_burst
           /\ c.checks[4].p_internal = c.p_internal_burst
           /\ c.longitudinal.p_internal = c.p_internal_burst
           /\ c.combined.p_internal = c.p_internal_burst
           /\ c.checks[2].p_internal = c.p_internal_collapse
           /\ c.checks[3].p_internal = c.p_internal_collapse
           /\ c.condition_name \in {"Installation", "Hydrotest"}
                => c.p_internal_burst = c.p_internal_collapse

\* a run with an Operation cell whose two pressures differ and a Hydrotest
\* cell whose one pressure is positive
C30_Witness ==
    /\ pc = "calculated"
    /\ \E k \in OperationCells : Cells[k].p_internal_burst # Cells[k].p_internal_collapse
    /\ \E k \in 1..Len(Cells) :
         Cells[k].condition_name = "Hydrotest" /\ Cells[k].p_internal_burst > 0

====
